---- MODULE Spec2Model ----
(***************************************************************************)
(* The data-cleanse pipeline of src/main.py: load_data,                    *)
(* standardize_column_names, cleanse_data, validate_data, save_data and    *)
(* the orchestrator process_pipeline, as a state machine.                  *)
(*                                                                         *)
(* A column name is a sequence of one-character strings.  A number is held *)
(* in quarter units (n = 4 * value), so that the median of integer and .5  *)
(* literals is exact.  A table (pandas DataFrame) is a record of column    *)
(* labels, column dtypes and rows of cells; labels may repeat, as they do  *)
(* in a DataFrame once two names standardize to the same string.           *)
(***************************************************************************)
EXTENDS Integers, Sequences, FiniteSets, TLC

VARIABLES
    input,    \* the file at input_file, fixed during the run
    pc,       \* the statement of process_pipeline that runs next
    data,     \* the local variable data of process_pipeline
    log,      \* the records appended to data_cleanse.log by this run
    output,   \* the file at output_file
    calls,    \* the components invoked so far, in order
    raised    \* TRUE when process_pipeline let an exception out to its caller

vars == <<input, pc, data, log, output, calls, raised>>

\* ---------------------------------------------------------------- bounds
MaxCells == 4
MaxHeaderChars == 4

\* ------------------------------------------------------- sequence helpers
DropLast(s) == SubSeq(s, 1, Len(s) - 1)

Range(s) == {s[i] : i \in DOMAIN s}

\* ------------------------------------------------- str.strip/lower/replace
Whitespace == {" ", "\t"}

RECURSIVE LStrip(_)
LStrip(s) ==
    IF s # <<>> /\ Head(s) \in Whitespace THEN LStrip(Tail(s)) ELSE s

RECURSIVE RStrip(_)
RStrip(s) ==
    IF s # <<>> /\ s[Len(s)] \in Whitespace THEN RStrip(DropLast(s)) ELSE s

Strip(s) == RStrip(LStrip(s))

LowerChar(c) ==
    CASE c = "A" -> "a"
      [] c = "G" -> "g"
      [] c = "E" -> "e"
      [] c = "N" -> "n"
      [] OTHER -> c

Lower(s) == [i \in DOMAIN s |-> LowerChar(s[i])]

Replace(s, old, new) == [i \in DOMAIN s |-> IF s[i] = old THEN new ELSE s[i]]

\* As StandardName, with the arguments of replace exchanged.
SwappedReplaceName(col) == Replace(Lower(Strip(col)), "_", " ")

\* col.strip().lower().replace(' ', '_')
StandardName(col) == Replace(Lower(Strip(col)), " ", "_")

\* ------------------------------------------------------------------ cells
\* A cell of a DataFrame: the missing marker NaN, an integer, a float or a
\* string.  n is the number in quarter units.
NA == [t |-> "na", n |-> 0, s |-> ""]
IntCell(q) == [t |-> "int", n |-> q, s |-> ""]
FloatCell(q) == [t |-> "float", n |-> q, s |-> ""]
StrCell(x) == [t |-> "str", n |-> 0, s |-> x]

IsNumber(c) == c.t \in {"int", "float"}

\* A field of a line of the input file: its text and how the csv parser
\* reads it (empty, integer literal, decimal literal, other text).
EmptyField == [text |-> "", lit |-> "empty", n |-> 0]
IntField(x, k) == [text |-> x, lit |-> "int", n |-> 4 * k]
DecField(x, q) == [text |-> x, lit |-> "dec", n |-> q]
TextField(x) == [text |-> x, lit |-> "text", n |-> 0]

\* ----------------------------------------------------------------- tables
EmptyTable == [columns |-> <<>>, dtypes |-> <<>>, rows |-> <<>>]

NumCols(df) == Len(df.columns)
NumRows(df) == Len(df.rows)
ColumnOf(df, j) == [i \in 1..NumRows(df) |-> df.rows[i][j]]
IsNumeric(dtype) == dtype \in {"int64", "float64"}
Labelled(df, name) == {j \in 1..NumCols(df) : df.columns[j] = name}

\* --------------------------------------------------- exceptions and records
NoExc == [type |-> "None", msg |-> ""]
FileNotFound == [type |-> "FileNotFoundError", msg |-> "No such file or directory"]
ParserError == [type |-> "ParserError", msg |-> "Error tokenizing data"]
EmptyDataError == [type |-> "EmptyDataError", msg |-> "No columns to parse from file"]
OSError == [type |-> "OSError", msg |-> "I/O error"]
MemoryError == [type |-> "MemoryError", msg |-> "out of memory"]
AgeTypeError == [type |-> "ValueError", msg |-> "Age column must be integer type"]
AgeNegativeError == [type |-> "ValueError", msg |-> "Age column contains negative values"]
AttributeError ==
    [type |-> "AttributeError", msg |-> "'DataFrame' object has no attribute 'dtype'"]

Info(m, a) == [level |-> "INFO", msg |-> m, arg |-> a]
Error(m, a) == [level |-> "ERROR", msg |-> m, arg |-> a]

\* What a component hands back: the exception it raises (NoExc when it
\* returns), the table it returns, the records it logs.
Returns(df, records) == [exc |-> NoExc, data |-> df, logs |-> records]
Raises(e, records) == [exc |-> e, data |-> EmptyTable, logs |-> records]

\* -------------------------------------------------------------- load_data
\* pd.read_csv's dtype of a column: int64 when every field is an integer
\* literal, float64 when every field is a number or empty, else object; a
\* column without rows is object.
InferDtype(fields) ==
    IF fields = <<>> THEN "object"
    ELSE IF \A i \in DOMAIN fields : fields[i].lit = "int" THEN "int64"
    ELSE IF \A i \in DOMAIN fields : fields[i].lit \in {"int", "dec", "empty"}
         THEN "float64"
    ELSE "object"

ParseField(f, dtype) ==
    IF f.lit = "empty" THEN NA
    ELSE IF dtype = "int64" THEN IntCell(f.n)
    ELSE IF dtype = "float64" THEN FloatCell(f.n)
    ELSE StrCell(f.text)

ReadCsv(file) ==
    LET nc == Len(file.header)
        nr == Len(file.rows)
        dt == [j \in 1..nc |-> InferDtype([i \in 1..nr |-> file.rows[i][j]])]
    IN  [columns |-> file.header,
         dtypes  |-> dt,
         rows    |-> [i \in 1..nr |->
                        [j \in 1..nc |-> ParseField(file.rows[i][j], dt[j])]]]

load_data(file, fault) ==
    IF file.kind = "missing"
    THEN Raises(FileNotFound, <<Error("File not found:", "input_file")>>)
    ELSE IF fault # NoExc
    THEN Raises(fault,
                <<Error("An unknown error occurred while loading data:", fault.msg)>>)
    ELSE IF file.kind = "malformed"
    THEN Raises(ParserError, <<Error("Error parsing the file:", "input_file")>>)
    ELSE IF file.kind = "empty"
    THEN Raises(EmptyDataError,
                <<Error("An unknown error occurred while loading data:",
                        EmptyDataError.msg)>>)
    ELSE Returns(ReadCsv(file), <<Info("Data loaded successfully from", "input_file")>>)

\* ----------------------------------------------- standardize_column_names
standardize_column_names(df, fault) ==
    IF fault # NoExc
    THEN Raises(fault,
                <<Error("An error occurred while standardizing column names:",
                        fault.msg)>>)
    ELSE Returns([df EXCEPT !.columns = [j \in DOMAIN df.columns |-> StandardName(df.columns[j])]],
                 <<Info("Column names standardized.", "")>>)

\* ----------------------------------------------------------- cleanse_data
\* Series.median of a column: over its non-missing values, NaN (has = FALSE)
\* when there is none.
Present(cells) == SelectSeq(cells, LAMBDA c : c.t # "na")

MedianOf(cells) ==
    LET vals == SortSeq([i \in DOMAIN Present(cells) |-> Present(cells)[i].n],
                        LAMBDA a, b : a < b)
        k == Len(vals)
    IN  IF k % 2 = 1 THEN vals[(k + 1) \div 2]
        ELSE (vals[k \div 2] + vals[k \div 2 + 1]) \div 2

\* data.median(numeric_only=True): one entry per numeric column, in column
\* order, indexed by the column's label.
NumericColumns(df) ==
    SelectSeq([j \in 1..NumCols(df) |-> j], LAMBDA j : IsNumeric(df.dtypes[j]))

Medians(df) ==
    [e \in DOMAIN NumericColumns(df) |->
        LET j == NumericColumns(df)[e]
        IN  [label |-> df.columns[j],
             has   |-> Present(ColumnOf(df, j)) # <<>>,
             v     |-> IF Present(ColumnOf(df, j)) # <<>>
                       THEN MedianOf(ColumnOf(df, j)) ELSE 0]]

\* result[k].fillna(v) for one entry (k, v) of the medians: every column
\* labelled k has its missing cells set to v.
FillLabel(df, entry) ==
    [df EXCEPT !.rows =
        [i \in 1..NumRows(df) |->
            [j \in 1..NumCols(df) |->
                IF df.columns[j] = entry.label /\ entry.has /\ df.rows[i][j] = NA
                THEN FloatCell(entry.v) ELSE df.rows[i][j]]]]

\* data.fillna(<Series>, inplace=True): the entries are applied in order.
RECURSIVE FillBySeries(_, _)
FillBySeries(df, entries) ==
    IF entries = <<>> THEN df
    ELSE FillBySeries(FillLabel(df, Head(entries)), Tail(entries))

\* As FillEmpty, filling the object columns only.
FillEmptyObjectOnly(df) ==
    [df EXCEPT
        !.rows = [i \in 1..NumRows(df) |->
                    [j \in 1..NumCols(df) |->
                        IF df.rows[i][j] = NA /\ df.dtypes[j] = "object"
                        THEN StrCell("") ELSE df.rows[i][j]]]]

\* data.fillna('', inplace=True): a float64 column that still held a missing
\* cell becomes object.
FillEmpty(df) ==
    [df EXCEPT
        !.rows = [i \in 1..NumRows(df) |->
                    [j \in 1..NumCols(df) |->
                        IF df.rows[i][j] = NA THEN StrCell("") ELSE df.rows[i][j]]],
        !.dtypes = [j \in 1..NumCols(df) |->
                      IF \E i \in 1..NumRows(df) : df.rows[i][j] = NA
                      THEN "object" ELSE df.dtypes[j]]]

\* As KeepFirst, with keep = 'last'.
RECURSIVE KeepLast(_, _)
KeepLast(rows, seen) ==
    IF rows = <<>> THEN <<>>
    ELSE IF Head(rows) \in Range(Tail(rows)) THEN KeepLast(Tail(rows), seen)
    ELSE <<Head(rows)>> \o KeepLast(Tail(rows), seen)

\* data.drop_duplicates(inplace=True): keep = 'first', all columns compared.
RECURSIVE KeepFirst(_, _)
KeepFirst(rows, seen) ==
    IF rows = <<>> THEN <<>>
    ELSE IF Head(rows) \in seen THEN KeepFirst(Tail(rows), seen)
    ELSE <<Head(rows)>> \o KeepFirst(Tail(rows), seen \cup {Head(rows)})

DropDuplicates(df) == [df EXCEPT !.rows = KeepFirst(df.rows, {})]

cleanse_data(df, fault) ==
    IF fault # NoExc
    THEN Raises(fault, <<Error("An error occurred during data cleansing:", fault.msg)>>)
    ELSE Returns(DropDuplicates(FillEmpty(FillBySeries(df, Medians(df)))),
                 <<Info("Data cleansing completed.", "")>>)

\* ---------------------------------------------------------- validate_data
Age == <<"a", "g", "e">>

\* As AgeCheck, without the check of the range.
AgeCheckTypeOnly(df) ==
    IF Labelled(df, Age) = {} THEN NoExc
    ELSE IF Cardinality(Labelled(df, Age)) > 1 THEN AttributeError
    ELSE LET j == CHOOSE c \in Labelled(df, Age) : TRUE
         IN  IF df.dtypes[j] # "int64" THEN AgeTypeError ELSE NoExc

\* The exception raised inside the try block, NoExc when none is.
AgeCheck(df) ==
    IF Labelled(df, Age) = {} THEN NoExc
    ELSE IF Cardinality(Labelled(df, Age)) > 1 THEN AttributeError
    ELSE LET j == CHOOSE c \in Labelled(df, Age) : TRUE
         IN  IF df.dtypes[j] # "int64" THEN AgeTypeError
             ELSE IF \E i \in 1..NumRows(df) : df.rows[i][j].n < 0
             THEN AgeNegativeError
             ELSE NoExc

\* As validate_data, with the raise statements of the except clauses left out.
ValidateSwallows(df, fault) ==
    LET e == IF fault # NoExc THEN fault ELSE AgeCheck(df)
    IN  IF e = NoExc THEN Returns(df, <<Info("Data validation completed.", "")>>)
        ELSE IF e.type = "ValueError"
        THEN Returns(df, <<Error("Data validation error:", e.msg)>>)
        ELSE Returns(df, <<Error("An unknown error occurred during data validation:",
                                 e.msg)>>)

validate_data(df, fault) ==
    LET e == IF fault # NoExc THEN fault ELSE AgeCheck(df)
    IN  IF e = NoExc THEN Returns(df, <<Info("Data validation completed.", "")>>)
        ELSE IF e.type = "ValueError"
        THEN Raises(e, <<Error("Data validation error:", e.msg)>>)
        ELSE Raises(e, <<Error("An unknown error occurred during data validation:",
                               e.msg)>>)

\* -------------------------------------------------------------- save_data
Fraction(q) ==
    CASE q % 4 = 0 -> "0" [] q % 4 = 1 -> "25" [] q % 4 = 2 -> "5" [] OTHER -> "75"

FormatFloat(q) ==
    IF q < 0 THEN "-" \o ToString((-q) \div 4) \o "." \o Fraction(-q)
    ELSE ToString(q \div 4) \o "." \o Fraction(q)

FormatInt(q) ==
    IF q < 0 THEN "-" \o ToString((-q) \div 4) ELSE ToString(q \div 4)

\* The text to_csv writes for a cell.
FormatCell(c) ==
    CASE c.t = "int" -> FormatInt(c.n)
      [] c.t = "float" -> FormatFloat(c.n)
      [] c.t = "str" -> c.s
      [] OTHER -> ""

NoFile == [kind |-> "absent", header |-> <<>>, rows |-> <<>>]
OldFile == [kind |-> "old", header |-> <<>>, rows |-> <<>>]
PartialFile == [kind |-> "partial", header |-> <<>>, rows |-> <<>>]

\* data.to_csv(output_path, index=False): the header line, then one line per
\* row, without the index.
ToCsv(df) ==
    [kind   |-> "written",
     header |-> df.columns,
     rows   |-> [i \in 1..NumRows(df) |->
                   [j \in 1..NumCols(df) |-> FormatCell(df.rows[i][j])]]]

\* file is what output_path holds afterwards; a failed write leaves `left`.
save_data(df, fault, left) ==
    IF fault # NoExc
    THEN [exc |-> fault, file |-> left,
          logs |-> <<Error("An error occurred while saving data:", fault.msg)>>]
    ELSE [exc |-> NoExc, file |-> ToCsv(df),
          logs |-> <<Info("Data saved successfully to", "output_file")>>]

\* ------------------------------------------------------- process_pipeline
\* The except clause of process_pipeline: one record, nothing re-raised.
Handler(e) == [logs |-> <<Error("Pipeline failed:", e.msg)>>, reraise |-> FALSE]

\* As Outcome, with the except clause around each statement: the run goes on.
OutcomeContinues(r, next) ==
    /\ pc' = next
    /\ log' = log \o r.logs \o (IF r.exc = NoExc THEN <<>> ELSE Handler(r.exc).logs)
    /\ raised' = FALSE

\* As Outcome, with a failed statement run again (until four calls were
\* made).
OutcomeRetries(r, next) ==
    IF r.exc = NoExc
    THEN /\ pc' = next
         /\ log' = log \o r.logs
         /\ raised' = FALSE
    ELSE /\ pc' = IF Len(calls) < 4 THEN pc ELSE "Done"
         /\ log' = log \o r.logs \o Handler(r.exc).logs
         /\ raised' = FALSE

\* What a statement of the try block does with its component's result r:
\* go on to `next` when it returned, run the except clause when it raised.
Outcome(r, next) ==
    IF r.exc = NoExc
    THEN /\ pc' = next
         /\ log' = log \o r.logs
         /\ raised' = FALSE
    ELSE /\ pc' = "Done"
         /\ log' = log \o r.logs \o Handler(r.exc).logs
         /\ raised' = Handler(r.exc).reraise

\* data = load_data(input_file)
LoadStep ==
    /\ pc = "Load"
    /\ \E fault \in {NoExc, OSError} :
          LET r == load_data(input, fault)
          IN  /\ Outcome(r, "Standardize")
              /\ data' = IF r.exc = NoExc THEN r.data ELSE data
    /\ calls' = Append(calls, "Load")
    /\ UNCHANGED <<input, output>>

\* data = standardize_column_names(data)
StandardizeStep ==
    /\ pc = "Standardize"
    /\ \E fault \in {NoExc, MemoryError} :
          LET r == standardize_column_names(data, fault)
          IN  /\ Outcome(r, "Cleanse")
              /\ data' = IF r.exc = NoExc THEN r.data ELSE data
    /\ calls' = Append(calls, "Standardize")
    /\ UNCHANGED <<input, output>>

\* data = cleanse_data(data)
CleanseStep ==
    /\ pc = "Cleanse"
    /\ \E fault \in {NoExc, MemoryError} :
          LET r == cleanse_data(data, fault)
          IN  /\ Outcome(r, "Validate")
              /\ data' = IF r.exc = NoExc THEN r.data ELSE data
    /\ calls' = Append(calls, "Cleanse")
    /\ UNCHANGED <<input, output>>

\* validate_data(data)
ValidateStep ==
    /\ pc = "Validate"
    /\ \E fault \in {NoExc, MemoryError} :
          Outcome(validate_data(data, fault), "Save")
    /\ calls' = Append(calls, "Validate")
    /\ UNCHANGED <<input, data, output>>

\* save_data(data, output_file)
SaveStep ==
    /\ pc = "Save"
    /\ \E fault \in {NoExc, OSError}, left \in {output, PartialFile} :
          LET r == save_data(data, fault, left)
          IN  /\ Outcome(r, "Complete")
              /\ output' = r.file
    /\ calls' = Append(calls, "Save")
    /\ UNCHANGED <<input, data>>

\* logging.info("Data pipeline completed successfully.")
CompleteStep ==
    /\ pc = "Complete"
    /\ pc' = "Done"
    /\ log' = Append(log, Info("Data pipeline completed successfully.", ""))
    /\ UNCHANGED <<input, data, output, calls, raised>>

\* ------------------------------------------------------------ input files
RawNames ==
    { <<" ", "A", "g", "e", " ">>, <<"a", "g", "e">>, <<" ", "N", "a", "m", "e", " ">> }

Fields ==
    { EmptyField, IntField("30", 30), IntField("-1", -1), DecField("3.5", 14),
      TextField("Alice"), TextField("alice") }

\* read_csv renames repeated header names, so the names of a parsed header
\* are distinct.
Headers(c) ==
    {h \in [1..c -> RawNames] : \A i, j \in 1..c : h[i] = h[j] => i = j}

Shapes == {sh \in (1..MaxCells) \X (0..MaxCells) : sh[1] * sh[2] <= MaxCells}

CsvFile(h, rs) == [kind |-> "csv", header |-> h, rows |-> rs]

OtherFile(k) == [kind |-> k, header |-> <<>>, rows |-> <<>>]

Init ==
    /\ \/ \E sh \in Shapes :
             \E h \in Headers(sh[1]), rs \in [1..sh[2] -> [1..sh[1] -> Fields]] :
                input = CsvFile(h, rs)
       \/ input \in {OtherFile("missing"), OtherFile("malformed"), OtherFile("empty")}
    /\ pc = "Load"
    /\ data = EmptyTable
    /\ log = <<>>
    /\ output \in {NoFile, OldFile}
    /\ calls = <<>>
    /\ raised = FALSE

Next ==
    \/ LoadStep
    \/ StandardizeStep
    \/ CleanseStep
    \/ ValidateStep
    \/ SaveStep
    \/ CompleteStep

Spec == Init /\ [][Next]_vars

\* process_pipeline is one sequential call: an enabled statement runs.
FairSpec == Spec /\ WF_vars(Next)

\* ------------------------------------- standardize_column_names on its own
\* Every header of at most MaxHeaderChars characters over StdChars: a string
\* cut into names at any of its positions.
StdChars == {"A", "a", " ", "\t", "_"}

RECURSIVE Split(_, _, _)
Split(f, cuts, start) ==
    IF start > Len(f) THEN <<>>
    ELSE LET end == CHOOSE e \in start..Len(f) :
                        /\ e \in cuts \/ e = Len(f)
                        /\ \A x \in start..(e - 1) : x \notin cuts
         IN  <<SubSeq(f, start, end)>> \o Split(f, cuts, end + 1)

\* One row whose cell in column j is the integer j.
StdFile(h) == CsvFile(h, << [j \in 1..Len(h) |-> IntField(ToString(j), j)] >>)

InitStd ==
    /\ \E n \in 1..MaxHeaderChars :
          \E f \in [1..n -> StdChars], cuts \in SUBSET (1..(n - 1)) :
             input = StdFile(Split(f, cuts, 1))
    /\ pc = "Standardize"
    /\ data = ReadCsv(input)
    /\ log = <<>>
    /\ output = NoFile
    /\ calls = <<>>
    /\ raised = FALSE

\* standardize_column_names(data), applied to its own result a second time.
StandardizeCall ==
    /\ pc = "Standardize"
    /\ Len(calls) < 2
    /\ LET r == standardize_column_names(data, NoExc)
       IN  /\ data' = r.data
           /\ log' = log \o r.logs
    /\ calls' = Append(calls, "Standardize")
    /\ UNCHANGED <<input, pc, output, raised>>

NextStd == StandardizeCall

SpecStd == InitStd /\ [][NextStd]_vars

\* =================================================================== claims
Stages == <<"Load", "Standardize", "Cleanse", "Validate", "Save">>

PipelineRecord == "Pipeline failed:"
SuccessRecord == Info("Data pipeline completed successfully.", "")

StageOfError(m) ==
    CASE m \in {"File not found:", "Error parsing the file:",
                "An unknown error occurred while loading data:"} -> "Load"
      [] m = "An error occurred while standardizing column names:" -> "Standardize"
      [] m = "An error occurred during data cleansing:" -> "Cleanse"
      [] m \in {"Data validation error:",
                "An unknown error occurred during data validation:"} -> "Validate"
      [] m = "An error occurred while saving data:" -> "Save"
      [] OTHER -> "none"

\* The positions of the ERROR records that components wrote.
ComponentErrors ==
    {i \in DOMAIN log : log[i].level = "ERROR" /\ log[i].msg # PipelineRecord}

PipelineErrors ==
    {i \in DOMAIN log : log[i].level = "ERROR" /\ log[i].msg = PipelineRecord}

HasRecord(m) == \E i \in DOMAIN log : log[i].msg = m

\* A failure that came from outside the table: an I/O or resource error.
EnvFault == \E i \in DOMAIN log : log[i].arg \in {OSError.msg, MemoryError.msg}

\* The table cleanse_data was given in this run.
Standardized == standardize_column_names(ReadCsv(input), NoExc).data

Cleansed == HasRecord("Data cleansing completed.")

\* C1: once a stage has raised, no later stage is invoked; when a stage before
\* Save has raised, Save is not invoked and the output file is neither
\* created nor overwritten.
C1_HaltsAtFirstFailure ==
    \A i \in ComponentErrors :
        LET S == StageOfError(log[i].msg)
        IN  /\ calls # <<>>
            /\ calls[Len(calls)] = S
            /\ Cardinality({k \in DOMAIN calls : calls[k] = S}) = 1
            /\ S # "Save" => /\ \A k \in DOMAIN calls : calls[k] # "Save"
                             /\ output \in {NoFile, OldFile}

C1_Witness ==
    /\ input.kind = "missing"
    /\ pc = "Done"
    /\ calls = <<"Load">>
    /\ output = OldFile

\* The message of the exception behind a component's ERROR record.
Underlying(rec) ==
    CASE rec.msg = "File not found:" -> FileNotFound.msg
      [] rec.msg = "Error parsing the file:" -> ParserError.msg
      [] OTHER -> rec.arg

\* C2: a component that fails logs one ERROR record and re-raises; the
\* orchestrator then logs one pipeline-level ERROR record carrying that
\* exception and returns normally: nothing reaches its caller.
C2_ErrorsLoggedThenAbsorbed ==
    /\ raised = FALSE
    /\ Cardinality(ComponentErrors) <= 1
    /\ Cardinality(PipelineErrors) = Cardinality(ComponentErrors)
    /\ \A i \in ComponentErrors :
          /\ pc = "Done"
          /\ i = Len(log) - 1
          /\ log[Len(log)] = Error(PipelineRecord, Underlying(log[i]))
    /\ pc = "Done" => log # <<>> /\ (log[Len(log)] = SuccessRecord \/ ComponentErrors # {})

C2_Witness ==
    /\ pc = "Done"
    /\ calls = SubSeq(Stages, 1, 4)
    /\ log[Len(log)] = Error(PipelineRecord, AgeNegativeError.msg)
    /\ log[Len(log) - 1] = Error("Data validation error:", AgeNegativeError.msg)

\* C3 (safety part): stages run in the order Load, Standardize, Cleanse,
\* Validate, Save, each at most once, each on the table the previous one
\* returned; a run without a failure ends with the output written and the
\* success record last, after the record of Save.
C3_Linear ==
    /\ Len(calls) <= Len(Stages)
    /\ \A k \in DOMAIN calls : calls[k] = Stages[k]
    /\ pc \in {"Load", "Standardize", "Cleanse", "Validate", "Save"}
          => calls = SubSeq(Stages, 1, Len(calls)) /\ Stages[Len(calls) + 1] = pc
    /\ pc = "Standardize" => data = load_data(input, NoExc).data
    /\ pc = "Cleanse" => data = Standardized
    /\ pc \in {"Validate", "Save", "Complete"}
          => data = cleanse_data(Standardized, NoExc).data
    /\ pc = "Complete" => calls = Stages /\ output = ToCsv(data)
    /\ \A i \in DOMAIN log :
          log[i] = SuccessRecord
             => /\ i = Len(log)
                /\ i > 1
                /\ log[i - 1] = Info("Data saved successfully to", "output_file")
                /\ pc = "Done"
                /\ calls = Stages
                /\ output = ToCsv(data)
    /\ pc = "Done" /\ ComponentErrors = {}
          => log # <<>> /\ log[Len(log)] = SuccessRecord

\* C3: every run terminates, and its stages run in order as C3_Linear says.
C3_RunsInOrderAndTerminates == [] C3_Linear /\ <>(pc = "Done")

C3_Witness ==
    /\ pc = "Done"
    /\ ComponentErrors = {}
    /\ output.kind = "written"
    /\ Len(output.rows) >= 2
    /\ Len(output.header) = 2

\* C4: a table that Save is invoked on holds only non-negative integers in
\* every column named "age".
AgeValuesValid(df) ==
    \A j \in Labelled(df, Age), i \in 1..NumRows(df) :
        df.rows[i][j].t = "int" /\ df.rows[i][j].n >= 0

C4_SavedAgeIsValid ==
    (pc = "Save" \/ \E k \in DOMAIN calls : calls[k] = "Save") => AgeValuesValid(data)

C4_Witness ==
    /\ pc = "Complete"
    /\ Labelled(data, Age) # {}
    /\ NumRows(data) >= 2
    /\ NumCols(data) = 2

\* What validate_data did in this run, read off the log.
Verdict ==
    IF HasRecord("Data validation completed.") THEN "ok"
    ELSE IF \E i \in DOMAIN log :
               log[i] = Error("Data validation error:", AgeTypeError.msg) THEN "type"
    ELSE IF \E i \in DOMAIN log :
               log[i] = Error("Data validation error:", AgeNegativeError.msg)
         THEN "negative"
    ELSE "other"

AgeCells(df) == {df.rows[i][j] : i \in 1..NumRows(df), j \in Labelled(df, Age)}

\* C5: validate_data succeeds without an "age" column; else fails with the
\* type error when an "age" value is not an integer; else fails with the
\* range error when an "age" value is negative; else succeeds.  (Stated for
\* the tables with at least one row.)
C5_ValidateDecides ==
    (Len(calls) >= 4 /\ ~ EnvFault /\ NumRows(data) > 0) =>
        Verdict = IF Labelled(data, Age) = {} THEN "ok"
                  ELSE IF \E c \in AgeCells(data) : c.t # "int" THEN "type"
                  ELSE IF \E c \in AgeCells(data) : c.n < 0 THEN "negative"
                  ELSE "ok"

Name == <<"n", "a", "m", "e">>

\* The input of the end-to-end example: header " Name , Age ", rows
\* Alice,30 and alice,<missing>.
ExampleFile ==
    CsvFile(<< <<" ", "N", "a", "m", "e", " ">>, <<" ", "A", "g", "e", " ">> >>,
            << <<TextField("Alice"), IntField("30", 30)>>,
               <<TextField("alice"), EmptyField>> >>)

\* C6: the run on the example input completes through Save; the output has
\* the header name,age, both rows, and the missing age filled with 30.
C6_ExampleRunCompletes ==
    (input = ExampleFile /\ pc = "Done" /\ ~ EnvFault) =>
        /\ calls = Stages
        /\ output.kind = "written"
        /\ output.header = <<Name, Age>>
        /\ Len(output.rows) = 2
        /\ output.rows[1][1] = "Alice"
        /\ output.rows[2][1] = "alice"
        /\ output.rows[2][2] = output.rows[1][2]

\* C7: after cleanse_data has returned, no cell of the table is the missing
\* marker.
C7_NoMissingAfterCleanse ==
    (Cleansed /\ pc \in {"Validate", "Save", "Complete", "Done"}) =>
        \A i \in 1..NumRows(data), j \in 1..NumCols(data) : data.rows[i][j] # NA

\* A float64 column without any value, one with a value and a missing cell,
\* and the table cleansed.
C7_Witness ==
    /\ pc = "Validate"
    /\ NumCols(Standardized) = 2
    /\ NumRows(Standardized) = 2
    /\ \E j \in 1..2 :
          /\ Standardized.dtypes[j] = "float64"
          /\ \A i \in 1..2 : Standardized.rows[i][j] = NA
    /\ \E j \in 1..2 :
          /\ Standardized.dtypes[j] = "float64"
          /\ \E i, k \in 1..2 : Standardized.rows[i][j] = NA /\ Standardized.rows[k][j] # NA

\* The numeric columns of df that hold at least one value.
WithMedian(df) ==
    {j \in 1..NumCols(df) : IsNumeric(df.dtypes[j]) /\ Present(ColumnOf(df, j)) # <<>>}

\* Row i of df with each missing cell of a column of WithMedian(df) set to
\* that column's median.
MedianFilled(df, i) ==
    [j \in WithMedian(df) |->
        IF df.rows[i][j] = NA THEN MedianOf(ColumnOf(df, j)) ELSE df.rows[i][j].n]

NumbersOf(df, row) == [j \in WithMedian(df) |-> IF IsNumber(row[j]) THEN row[j].n ELSE -1000]

\* C8: in a numeric column with at least one value, every cell that was
\* missing holds that column's median after cleanse_data and every other cell
\* holds the number it held.
C8_FilledWithOwnMedian ==
    (Cleansed /\ pc = "Validate") =>
        /\ \A r \in Range(data.rows) :
              /\ \A j \in WithMedian(Standardized) : IsNumber(r[j])
              /\ \E i \in 1..NumRows(Standardized) :
                    NumbersOf(Standardized, r) = MedianFilled(Standardized, i)
        /\ \A i \in 1..NumRows(Standardized) :
              \E r \in Range(data.rows) :
                  NumbersOf(Standardized, r) = MedianFilled(Standardized, i)

\* The rows before drop_duplicates: the table with its missing cells filled.
FilledRows == FillEmpty(FillBySeries(Standardized, Medians(Standardized))).rows

FirstAt(rows, r) == CHOOSE i \in DOMAIN rows : rows[i] = r /\ \A k \in 1..(i - 1) : rows[k] # r

\* C9: after cleanse_data no two rows are equal in every column; the rows
\* left are those of the filled table, each once, in the order of their
\* first occurrences.
C9_NoDuplicateRows ==
    (Cleansed /\ pc = "Validate") =>
        /\ \A a, b \in DOMAIN data.rows : data.rows[a] = data.rows[b] => a = b
        /\ Range(data.rows) = Range(FilledRows)
        /\ \A a, b \in DOMAIN data.rows :
              a < b => FirstAt(FilledRows, data.rows[a]) < FirstAt(FilledRows, data.rows[b])

\* Two rows that are equal only once the missing cell is filled, a different
\* row as well: fewer rows are left than went in, and more than one.
C9_Witness ==
    /\ Cleansed
    /\ pc = "Validate"
    /\ \E i, k \in DOMAIN FilledRows :
          /\ i < k
          /\ FilledRows[i] = FilledRows[k]
          /\ Standardized.rows[i] # Standardized.rows[k]
    /\ Len(data.rows) >= 2
    /\ Len(data.rows) < Len(FilledRows)

UpperChars == {"A", "G", "E", "N"}

\* Lowercase, trimmed, free of spaces.
IsStandard(name) ==
    /\ \A i \in DOMAIN name : name[i] \notin UpperChars /\ name[i] # " "
    /\ name # <<>> => name[1] \notin Whitespace /\ name[Len(name)] \notin Whitespace

\* C10: standardize_column_names applied to its own result changes no column
\* name; it leaves the cells, the dtypes and the number and order of the
\* columns as they were, and every name it returns is lowercase, trimmed and
\* free of spaces.
C10_StandardizeIdempotent ==
    /\ [][Len(calls) = 1 => data'.columns = data.columns]_vars
    /\ [](/\ data.rows = ReadCsv(input).rows
          /\ data.dtypes = ReadCsv(input).dtypes
          /\ Len(data.columns) = Len(input.header)
          /\ Len(calls) >= 1 =>
                \A j \in DOMAIN data.columns :
                    /\ IsStandard(data.columns[j])
                    /\ Len(data.columns[j]) = Len(Strip(input.header[j])))

\* Applied twice to a header of two names, one with leading whitespace, an
\* upper-case letter and an internal space.
C10_Witness ==
    /\ Len(calls) = 2
    /\ Len(input.header) = 2
    /\ \E j \in 1..2 :
          /\ input.header[j] = <<" ", "A", " ">> \/ input.header[j] = <<"A", " ", "a">>
          /\ data.columns[j] # input.header[j]

====
